---- MODULE Spec2Model ----
(***************************************************************************)
(* A model of kaiaverkvist/minimal: the generic Resource[T] CRUD scaffold  *)
(* (two revisions of resource.go are in the tree), the res response        *)
(* envelopes, the database package's global handle, and the Server (New,   *)
(* Init, registerRoutes, AddMiddlewares).                                  *)
(*                                                                         *)
(* Echo and Gorm are libraries outside the tree.  Their calls are modelled *)
(* by their documented behaviour at the call sites:                        *)
(*   First   : the row with that primary key, else ErrRecordNotFound       *)
(*   Save    : Create when the primary key is zero, else update            *)
(*   Delete  : ErrMissingWhereClause when the primary key is zero          *)
(*   a call on a nil *gorm.DB dereferences nil and panics                  *)
(*   a handler that returns a plain error gets Echo's default 500 body     *)
(***************************************************************************)
EXTENDS Integers, Sequences, FiniteSets, TLC

(***************************************************************************)
(* Bounds of the model.                                                    *)
(***************************************************************************)
\* primary keys the table hands out
MaxId == 1
\* functions (predicates, query overrides, a transformer, middlewares) a
\* consumer gives one resource
MaxHooks == 1
\* providers given to New
MaxProviders == 2
\* models given to New
MaxModels == 1

(***************************************************************************)
(* Values.                                                                 *)
(***************************************************************************)
Nil == "nil"

\* the two revisions of the Resource scaffold in the tree
Root == "resource.go"
P1 == "part_001"
Revisions == {Root, P1}

\* errors are compared by identity (errors.Is); ErrorText gives Error()
ErrorNoResourceAccess == "ErrorNoResourceAccess"
ErrorNoResourceFound == "ErrorNoResourceFound"
ErrorDatabase == "ErrorDatabase"
ErrorNoBindType == "ErrorNoBindType"
ErrorInvalidData == "ErrorInvalidData"
ErrorInvalidID == "ErrorInvalidID"
\* errors that come from outside the package
ErrRecordNotFound == "gorm.ErrRecordNotFound"
ErrMissingWhereClause == "gorm.ErrMissingWhereClause"
ErrDbFault == "gorm.fault"
ErrUser == "user.error"

ErrorText(err) ==
    CASE err = ErrorNoResourceAccess -> "no resource access"
      [] err = ErrorNoResourceFound -> "no resource found"
      [] err = ErrorDatabase -> "database problem"
      [] err = ErrorNoBindType -> "unable to handle this request"
      [] err = ErrorInvalidData -> "bad data"
      [] err = ErrorInvalidID -> "bad id"
      [] err = ErrRecordNotFound -> "record not found"
      [] err = ErrMissingWhereClause -> "WHERE conditions required"
      [] err = ErrDbFault -> "connection refused"
      [] err = ErrUser -> "tshsaas"

StatusOK == 200
StatusBadRequest == 400
StatusForbidden == 403
StatusNotFound == 404
StatusInternalServerError == 500

(***************************************************************************)
(* package res                                                             *)
(***************************************************************************)
NilData == [kind |-> "nil"]

\* resModel without the message
resModel_noMessage(success, model, message) ==
    [Success |-> success, Message |-> "", Data |-> model]

resModel(success, model, message) ==
    [Success |-> success,
     Message |-> IF message # Nil THEN ErrorText(message) ELSE "",
     Data |-> model]

\* c.JSON(code, body): the response written
JSON(code, body) == [code |-> code, body |-> body]

Ok(model) == JSON(StatusOK, resModel(TRUE, model, Nil))

OkCode(code, model) == JSON(code, resModel(TRUE, model, Nil))

FailCode(code, message) == JSON(code, resModel(FALSE, NilData, message))

Fail(message) == JSON(StatusInternalServerError, resModel(FALSE, NilData, message))

\* c.NoContent(code)
NoContent(code) == [code |-> code, body |-> [kind |-> "none"]]

\* a handler returned a plain error: Echo's DefaultHTTPErrorHandler
EchoError(err) ==
    [code |-> StatusInternalServerError,
     body |-> [message |-> "Internal Server Error"]]

\* nil dereference inside a handler: nothing is written
Panic == [code |-> 0, body |-> [kind |-> "panic"]]

(***************************************************************************)
(* The table of T behind database.Db.                                      *)
(***************************************************************************)
\* the payload a request body carries; a zero T carries ""
Vals == {"a"}
Absent == "absent"
Ids == 1..MaxId

\* var result T
ZeroT == [id |-> 0, val |-> ""]

Entity(id, val) == [id |-> id, val |-> val]

Has(rws, id) == id \in DOMAIN rws /\ rws[id] # Absent

\* Db.First(&result, "id = ?", id)
First(d, id, fault) ==
    IF fault THEN [Error |-> ErrDbFault, result |-> ZeroT]
    ELSE IF Has(d.rows, id) THEN [Error |-> Nil, result |-> Entity(id, d.rows[id])]
    ELSE [Error |-> ErrRecordNotFound, result |-> ZeroT]

\* Db.Find(&result)
Find(d, fault) ==
    IF fault THEN [Error |-> ErrDbFault, result |-> [kind |-> "list", ids |-> {}]]
    ELSE [Error |-> Nil, result |-> [kind |-> "list", ids |-> {i \in Ids : Has(d.rows, i)}]]

\* Db.Create(&model): the next primary key is assigned
Create(d, model, fault) ==
    IF fault THEN [Error |-> ErrDbFault, db |-> d]
    ELSE [Error |-> Nil,
          db |-> [rows |-> IF d.nextId \in Ids
                           THEN [d.rows EXCEPT ![d.nextId] = model.val]
                           ELSE d.rows,
                  nextId |-> d.nextId + 1]]

\* Db.Save(value)
Save(d, value, fault) ==
    IF fault THEN [Error |-> ErrDbFault, db |-> d]
    ELSE IF value.id = 0 THEN Create(d, value, FALSE)
    ELSE [Error |-> Nil,
          db |-> [d EXCEPT !.rows = IF value.id \in Ids
                                    THEN [d.rows EXCEPT ![value.id] = value.val]
                                    ELSE d.rows]]

\* Db.Delete(&entity)
Delete(d, entity, fault) ==
    IF fault THEN [Error |-> ErrDbFault, db |-> d]
    ELSE IF entity.id = 0 THEN [Error |-> ErrMissingWhereClause, db |-> d]
    ELSE [Error |-> Nil,
          db |-> [d EXCEPT !.rows = IF entity.id \in Ids
                                    THEN [d.rows EXCEPT ![entity.id] = Absent]
                                    ELSE d.rows]]

\* patch.Struct(&result, new): the bound fields overwrite the entity's
Patch(result, val) == [result EXCEPT !.val = val]

VARIABLES
    revision,   \* which revision of resource.go is built
    Db,         \* database.Db: Nil or the handle gorm.Open returned
    table,      \* [rows, nextId]: the rows of T
    r,          \* the Resource[T]
    routes,     \* the routes registered on the Echo instance
    reg,        \* the outcome of the last Register
    resp,       \* the last response of a handler
    out,        \* the last response built by package res
    srv         \* the Server: its lists, Init's position and what Init has done

vars == <<revision, Db, table, r, routes, reg, resp, out, srv>>

(***************************************************************************)
(* strconv.Atoi on the "id" path parameter, and the uint conversion.       *)
(***************************************************************************)
DigitVal(ch) ==
    CASE ch = "0" -> 0 [] ch = "1" -> 1 [] ch = "2" -> 2 [] ch = "3" -> 3
      [] ch = "4" -> 4 [] ch = "5" -> 5 [] ch = "6" -> 6 [] ch = "7" -> 7
      [] ch = "8" -> 8 [] ch = "9" -> 9 [] OTHER -> -1

RECURSIVE ParseDigits(_, _)
\* the value of a digit string, -1 when a character is no digit
ParseDigits(s, acc) ==
    IF s = <<>> THEN acc
    ELSE IF DigitVal(Head(s)) < 0 THEN -1
    ELSE ParseDigits(Tail(s), acc * 10 + DigitVal(Head(s)))

Atoi(s) ==
    LET signed == s # <<>> /\ Head(s) \in {"-", "+"}
        digits == IF signed THEN Tail(s) ELSE s
        n == IF digits = <<>> THEN -1 ELSE ParseDigits(digits, 0)
    IN  IF n < 0 THEN [err |-> TRUE, n |-> 0]
        ELSE [err |-> FALSE, n |-> IF signed /\ Head(s) = "-" THEN -n ELSE n]

\* uint(id): a negative id wraps to a key above every key of the table
Uint(id) == IF id >= 0 THEN id ELSE 2^30 + id

DigitChar(n) ==
    CASE n = 0 -> "0" [] n = 1 -> "1" [] n = 2 -> "2" [] n = 3 -> "3" [] n = 4 -> "4"
      [] n = 5 -> "5" [] n = 6 -> "6" [] n = 7 -> "7" [] n = 8 -> "8" [] n = 9 -> "9"

RECURSIVE Decimal(_)
\* the decimal digits of n >= 0
Decimal(n) == IF n < 10 THEN <<DigitChar(n)>> ELSE Append(Decimal(n \div 10), DigitChar(n % 10))

\* the path parameters a client sends: the keys of the table, a key past
\* them, and a parameter that is no number
IdNumbers == {Decimal(n) : n \in 1..(MaxId + 1)}
IdParams == IdNumbers \cup {<<"x">>}

(***************************************************************************)
(* What a handler's call is given: the path parameter, what the consumer's *)
(* functions return for this request, and whether the database fails.      *)
(***************************************************************************)
Context(ids, rets, bodies, faults, hooks, tfs) ==
    [id : ids, ret : rets, body : bodies, fault : faults, hook : hooks, tf : tfs]

\* the request body: one that does not bind, one that binds and does not
\* patch, or one that carries a value
Bodies == {"bindfail", "patchfail"} \cup Vals
BindOk(c) == c.body # "bindfail"
PatchOk(c) == c.body # "patchfail"
BodyVal(c) == c.body

\* the database fails on the lookup, on the write, or not at all
Faults == {"none", "read", "write"}
RFault(c) == c.fault = "read"
WFault(c) == c.fault = "write"

\* the predicate p of the resource, called in this request
Denies(p, c) == p # Nil /\ ~c.ret
Auth(p, c) == IF p = Nil THEN "none" ELSE IF c.ret THEN "allow" ELSE "deny"

\* what a query hook returns
Result(err, m, auth, d) == [err |-> err, m |-> m, auth |-> auth, db |-> d, panic |-> FALSE]
Panicked(d) == [err |-> Nil, m |-> NilData, auth |-> "none", db |-> d, panic |-> TRUE]

(***************************************************************************)
(* The default query hooks Register installs.                              *)
(***************************************************************************)
\* q.Error is the handle's own error, which Find on its clone never sets
listAllQuery_root(d, c) ==
    LET tx == Find(d, RFault(c))
    IN  Result(Nil, tx.result, "none", d)

listAllQuery_p1(d, c) ==
    LET tx == Find(d, RFault(c))
    IN  IF tx.Error # Nil THEN Result(ErrorNoResourceFound, NilData, "none", d)
        ELSE Result(Nil, tx.result, "none", d)

listByIdQuery_default(res, d, id, c) ==
    LET tx == First(d, id, RFault(c))
        a == Auth(res.canListById, c)
    IN  IF Denies(res.canListById, c) THEN Result(ErrorNoResourceAccess, NilData, a, d)
        ELSE IF tx.Error # Nil
        THEN IF tx.Error = ErrRecordNotFound
             THEN Result(ErrorNoResourceFound, NilData, a, d)
             ELSE Result(tx.Error, NilData, a, d)
        ELSE Result(Nil, [kind |-> "entity", id |-> tx.result.id], a, d)

writeByIdQuery_root(res, d, id, c) ==
    LET tx == First(d, id, RFault(c))
        a == Auth(res.canWriteById, c)
        saved == Save(d, Patch(tx.result, BodyVal(c)), WFault(c))
    IN  IF Denies(res.canWriteById, c) THEN Result(ErrorNoResourceAccess, NilData, a, d)
        ELSE IF ~PatchOk(c) THEN Result(ErrorInvalidData, NilData, a, d)
        ELSE IF tx.Error # Nil THEN Result(tx.Error, NilData, a, saved.db)
        ELSE Result(Nil, NilData, a, saved.db)

writeByIdQuery_p1(res, d, id, c) ==
    LET tx == First(d, id, RFault(c))
        a == Auth(res.canWriteById, c)
        tx2 == Save(d, Patch(tx.result, BodyVal(c)), WFault(c))
    IN  IF Denies(res.canWriteById, c) THEN Result(ErrorNoResourceAccess, NilData, a, d)
        ELSE IF ~PatchOk(c) THEN Result(ErrorInvalidData, NilData, a, d)
        ELSE IF tx2.Error # Nil THEN Result(tx2.Error, NilData, a, tx2.db)
        ELSE IF tx.Error # Nil THEN Result(tx.Error, NilData, a, tx2.db)
        ELSE Result(Nil, NilData, a, tx2.db)

\* deleteByIdQuery with the row deleted before the predicate is asked
deleteByIdQuery_root_deleteFirst(res, d, id, c) ==
    LET tx == First(d, id, RFault(c))
        a == Auth(res.canDeleteById, c)
        deleted == Delete(d, tx.result, WFault(c))
    IN  IF Denies(res.canDeleteById, c) THEN Result(ErrorNoResourceAccess, NilData, a, deleted.db)
        ELSE IF tx.Error = ErrRecordNotFound
        THEN Result(ErrorNoResourceFound, NilData, a, deleted.db)
        ELSE IF tx.Error # Nil THEN Result(tx.Error, NilData, a, deleted.db)
        ELSE Result(Nil, NilData, a, deleted.db)

deleteByIdQuery_root(res, d, id, c) ==
    LET tx == First(d, id, RFault(c))
        a == Auth(res.canDeleteById, c)
        deleted == Delete(d, tx.result, WFault(c))
    IN  IF Denies(res.canDeleteById, c) THEN Result(ErrorNoResourceAccess, NilData, a, d)
        ELSE IF tx.Error = ErrRecordNotFound
        THEN Result(ErrorNoResourceFound, NilData, a, deleted.db)
        ELSE IF tx.Error # Nil THEN Result(tx.Error, NilData, a, deleted.db)
        ELSE Result(Nil, NilData, a, deleted.db)

deleteByIdQuery_p1(d, entity, c) ==
    LET tx == Delete(d, entity, WFault(c))
    IN  IF tx.Error = ErrRecordNotFound THEN Result(ErrorNoResourceFound, NilData, "none", tx.db)
        ELSE IF tx.Error # Nil THEN Result(tx.Error, NilData, "none", tx.db)
        ELSE Result(Nil, NilData, "none", tx.db)

(***************************************************************************)
(* Calls through the hook fields.  "f" is a function the consumer gave:    *)
(* it returns what the context says; a nil field or a default hook on a    *)
(* nil handle dereferences nil.                                            *)
(***************************************************************************)
UserResult(d, c, m) == Result(c.hook, IF c.hook = Nil THEN m ELSE NilData, "none", d)

CallListAllQuery(res, rev, dbh, d, c) ==
    CASE res.listAllQuery = "f" -> UserResult(d, c, [kind |-> "user"])
      [] res.listAllQuery = "default" /\ dbh # Nil ->
            IF rev = Root THEN listAllQuery_root(d, c) ELSE listAllQuery_p1(d, c)
      [] OTHER -> Panicked(d)

CallListByIdQuery(res, rev, dbh, d, id, c) ==
    CASE res.listByIdQuery = "f" -> UserResult(d, c, [kind |-> "user"])
      [] res.listByIdQuery = "default" /\ dbh # Nil -> listByIdQuery_default(res, d, id, c)
      [] OTHER -> Panicked(d)

CallWriteByIdQuery(res, rev, dbh, d, id, c) ==
    CASE res.writeByIdQuery = "default" /\ dbh # Nil ->
            IF rev = Root THEN writeByIdQuery_root(res, d, id, c)
            ELSE writeByIdQuery_p1(res, d, id, c)
      [] OTHER -> Panicked(d)

(***************************************************************************)
(* The handlers.  Each gives the response written, what the authorization  *)
(* predicate answered ("none" when it was not asked), the error the query  *)
(* hook returned ("notcalled" when it was not called) and the table after. *)
(***************************************************************************)
NotCalled == "notcalled"

Handled(http, auth, hook, d) == [http |-> http, auth |-> auth, hook |-> hook, db |-> d]

\* FailById with the not-found branch lost
FailById_noNotFound(err) ==
    IF err = ErrorNoResourceAccess THEN FailCode(StatusForbidden, ErrorNoResourceAccess)
    ELSE FailCode(StatusInternalServerError, ErrorDatabase)

\* the status a query hook's error maps to in getById, writeById, deleteById
FailById(err) ==
    IF err = ErrorNoResourceFound THEN FailCode(StatusNotFound, ErrorNoResourceFound)
    ELSE IF err = ErrorNoResourceAccess THEN FailCode(StatusForbidden, ErrorNoResourceAccess)
    ELSE FailCode(StatusInternalServerError, ErrorDatabase)

getAll(res, rev, dbh, d, c) ==
    LET a == Auth(res.canListAll, c)
        q == CallListAllQuery(res, rev, dbh, d, c)
    IN  IF Denies(res.canListAll, c)
        THEN Handled(FailCode(StatusForbidden, ErrorNoResourceAccess), a, NotCalled, d)
        ELSE IF q.panic THEN Handled(Panic, a, NotCalled, d)
        ELSE IF q.err # Nil
        THEN IF q.err = ErrorNoResourceFound
             THEN Handled(FailCode(StatusNotFound, q.err), a, q.err, q.db)
             ELSE Handled(FailCode(StatusInternalServerError, ErrorDatabase), a, q.err, q.db)
        ELSE Handled(Ok(q.m), a, q.err, q.db)

\* getById with the result of Atoi not looked at: the id is taken as 0
getById_noIdCheck(res, rev, dbh, d, c) ==
    LET id == Atoi(c.id)
        q == CallListByIdQuery(res, rev, dbh, d, Uint(id.n), c)
    IN  IF q.panic THEN Handled(Panic, "none", NotCalled, d)
        ELSE IF q.err # Nil THEN Handled(FailById(q.err), q.auth, q.err, q.db)
        ELSE Handled(Ok(q.m), q.auth, q.err, q.db)

getById(res, rev, dbh, d, c) ==
    LET id == Atoi(c.id)
        q == CallListByIdQuery(res, rev, dbh, d, Uint(id.n), c)
    IN  IF id.err
        THEN Handled(FailCode(StatusBadRequest, ErrorInvalidID), "none", NotCalled, d)
        ELSE IF q.panic THEN Handled(Panic, "none", NotCalled, d)
        ELSE IF q.err # Nil THEN Handled(FailById(q.err), q.auth, q.err, q.db)
        ELSE Handled(Ok(q.m), q.auth, q.err, q.db)

\* writeById without the check of the bind type
writeById_noBindCheck(res, rev, dbh, d, c) ==
    LET id == Atoi(c.id)
        q == CallWriteByIdQuery(res, rev, dbh, d, Uint(id.n), c)
    IN  IF ~BindOk(c)
        THEN Handled(FailCode(StatusBadRequest, ErrorInvalidData), "none", NotCalled, d)
        ELSE IF id.err
        THEN Handled(FailCode(StatusBadRequest, ErrorInvalidID), "none", NotCalled, d)
        ELSE IF q.panic THEN Handled(Panic, "none", NotCalled, d)
        ELSE IF q.err # Nil THEN Handled(FailById(q.err), q.auth, q.err, q.db)
        ELSE Handled(NoContent(StatusOK), q.auth, q.err, q.db)

writeById(res, rev, dbh, d, c) ==
    LET id == Atoi(c.id)
        q == CallWriteByIdQuery(res, rev, dbh, d, Uint(id.n), c)
    IN  IF res.writeBindType = Nil
        THEN Handled(FailCode(StatusInternalServerError, ErrorNoBindType), "none", NotCalled, d)
        ELSE IF ~BindOk(c)
        THEN Handled(FailCode(StatusBadRequest, ErrorInvalidData), "none", NotCalled, d)
        ELSE IF id.err
        THEN Handled(FailCode(StatusBadRequest, ErrorInvalidID), "none", NotCalled, d)
        ELSE IF q.panic THEN Handled(Panic, "none", NotCalled, d)
        ELSE IF q.err # Nil THEN Handled(FailById(q.err), q.auth, q.err, q.db)
        ELSE Handled(NoContent(StatusOK), q.auth, q.err, q.db)

\* the tail of create: Db.Create(&model)
createModel(dbh, d, model, a, c) ==
    LET tx == Create(d, model, WFault(c))
    IN  IF dbh = Nil THEN Handled(Panic, a, NotCalled, d)
        ELSE IF tx.Error # Nil
        THEN Handled(FailCode(StatusInternalServerError, ErrorDatabase), a, NotCalled, tx.db)
        ELSE Handled(NoContent(StatusOK), a, NotCalled, tx.db)

create_root(res, dbh, d, c) ==
    LET a == Auth(res.canCreate, c)
    IN  IF Denies(res.canCreate, c)
        THEN Handled(FailCode(StatusForbidden, ErrorNoResourceAccess), a, NotCalled, d)
        ELSE IF res.createBindType = Nil
        THEN Handled(FailCode(StatusInternalServerError, ErrorNoBindType), a, NotCalled, d)
        ELSE IF ~BindOk(c) \/ ~PatchOk(c)
        THEN Handled(FailCode(StatusBadRequest, ErrorInvalidData), a, NotCalled, d)
        ELSE createModel(dbh, d, Patch(ZeroT, BodyVal(c)), a, c)

create_p1(res, dbh, d, c) ==
    LET a == Auth(res.canCreate, c)
    IN  IF Denies(res.canCreate, c)
        THEN Handled(FailCode(StatusForbidden, ErrorNoResourceAccess), a, NotCalled, d)
        ELSE IF res.createTransformer # Nil
        THEN IF c.tf = "err" THEN Handled(FailCode(StatusBadRequest, ErrUser), a, NotCalled, d)
             ELSE createModel(dbh, d, IF c.tf = "model" THEN Patch(ZeroT, BodyVal(c)) ELSE ZeroT, a, c)
        ELSE IF res.createBindType = Nil
        THEN Handled(FailCode(StatusInternalServerError, ErrorNoBindType), a, NotCalled, d)
        ELSE IF ~BindOk(c) \/ ~PatchOk(c)
        THEN Handled(FailCode(StatusBadRequest, ErrorInvalidData), a, NotCalled, d)
        ELSE createModel(dbh, d, Patch(ZeroT, BodyVal(c)), a, c)

deleteById_root(res, dbh, d, c) ==
    LET id == Atoi(c.id)
        q == IF dbh = Nil \/ res.deleteByIdQuery = Nil THEN Panicked(d)
             ELSE deleteByIdQuery_root(res, d, Uint(id.n), c)
    IN  IF id.err
        THEN Handled(FailCode(StatusBadRequest, ErrorInvalidID), "none", NotCalled, d)
        ELSE IF q.panic THEN Handled(Panic, "none", NotCalled, d)
        ELSE IF q.err # Nil THEN Handled(FailById(q.err), q.auth, q.err, q.db)
        ELSE Handled(NoContent(StatusOK), q.auth, q.err, q.db)

deleteById_p1(res, dbh, d, c) ==
    LET id == Atoi(c.id)
        tx == First(d, id.n, RFault(c))
        a == Auth(res.canDeleteById, c)
        q == CASE res.deleteByIdQuery = "f" -> UserResult(d, c, NilData)
               [] res.deleteByIdQuery = "default" -> deleteByIdQuery_p1(d, tx.result, c)
               [] OTHER -> Panicked(d)
    IN  IF id.err
        THEN Handled(FailCode(StatusBadRequest, ErrorInvalidID), "none", NotCalled, d)
        ELSE IF dbh = Nil THEN Handled(Panic, "none", NotCalled, d)
        ELSE IF Denies(res.canDeleteById, c)
        THEN Handled(EchoError(ErrorNoResourceAccess), a, NotCalled, d)
        ELSE IF q.panic THEN Handled(Panic, a, NotCalled, d)
        ELSE IF q.err # Nil THEN Handled(FailById(q.err), a, q.err, q.db)
        ELSE Handled(NoContent(StatusOK), a, q.err, q.db)

create(res, rev, dbh, d, c) ==
    IF rev = Root THEN create_root(res, dbh, d, c) ELSE create_p1(res, dbh, d, c)

deleteById(res, rev, dbh, d, c) ==
    IF rev = Root THEN deleteById_root(res, dbh, d, c) ELSE deleteById_p1(res, dbh, d, c)

(***************************************************************************)
(* Register.                                                               *)
(***************************************************************************)
\* resource.go: the default hooks are assigned whatever the fields hold
installHooks_root(res) ==
    [res EXCEPT !.listAllQuery = "default", !.listByIdQuery = "default",
                !.writeByIdQuery = "default", !.deleteByIdQuery = "default"]

\* part_001: a default hook is assigned only to a nil field
installHooks_p1(res) ==
    [res EXCEPT !.listAllQuery = IF @ = Nil THEN "default" ELSE @,
                !.listByIdQuery = IF @ = Nil THEN "default" ELSE @,
                !.writeByIdQuery = IF @ = Nil THEN "default" ELSE @,
                !.deleteByIdQuery = IF @ = Nil THEN "default" ELSE @]

\* database.AutoMigrate(model): Db.AutoMigrate is called; its error is only logged
AutoMigrate(dbh) == IF dbh = Nil THEN "nilderef" ELSE "called"

\* resource.go: AutoMigrate is called whatever database.Db holds
migrate_root(dbh) == AutoMigrate(dbh)

\* part_001: AutoMigrate is called when database.Db is not nil
migrate_p1(dbh) == IF dbh # Nil THEN AutoMigrate(dbh) ELSE "skipped"

Route(name, method, path, handler, mws) ==
    [group |-> name, method |-> method, path |-> path, handler |-> handler, mws |-> mws]

\* groupRoutes with the DELETE route bound to the update handler
groupRoutes_deleteMisbound(name, mws) ==
    {Route(name, "GET", "", "getAll", mws),
     Route(name, "GET", "/:id", "getById", mws),
     Route(name, "PUT", "/:id", "writeById", mws),
     Route(name, "POST", "", "create", mws),
     Route(name, "DELETE", "/:id", "writeById", mws)}

\* group := e.Group(r.Name) and the five routes added to it
groupRoutes(name, mws) ==
    {Route(name, "GET", "", "getAll", mws),
     Route(name, "GET", "/:id", "getById", mws),
     Route(name, "PUT", "/:id", "writeById", mws),
     Route(name, "POST", "", "create", mws),
     Route(name, "DELETE", "/:id", "deleteById", mws)}

\* Echo's router keeps one route for a method and path
addRoutes(rs, new) ==
    {x \in rs : ~\E n \in new : n.group = x.group /\ n.method = x.method /\ n.path = x.path}
        \cup new

(***************************************************************************)
(* The state.                                                              *)
(***************************************************************************)
ResourceZero ==
    [Name |-> "tests",
     canListAll |-> Nil, listAllQuery |-> Nil,
     canListById |-> Nil, listByIdQuery |-> Nil,
     canWriteById |-> Nil, writeBindType |-> Nil, writeByIdQuery |-> Nil,
     canCreate |-> Nil, createBindType |-> Nil, createTransformer |-> Nil,
     canDeleteById |-> Nil, deleteByIdQuery |-> Nil,
     middlewares |-> <<>>]

\* the fields that hold a function the consumer gave
HookFields ==
    {"canListAll", "canListById", "canWriteById", "canDeleteById", "createTransformer",
     "listAllQuery", "listByIdQuery", "deleteByIdQuery", "middlewares"}

Hooked(res) ==
    {f \in {"canListAll", "canListById", "canWriteById", "canDeleteById",
            "createTransformer"} : res[f] # Nil}
        \cup {f \in {"listAllQuery", "listByIdQuery", "deleteByIdQuery"} : res[f] = "f"}
        \cup {f \in {"middlewares"} : res[f] # <<>>}

\* the consumer may set field f
MaySet(f) == f \in HookFields => Cardinality(Hooked(r) \cup {f}) <= MaxHooks

\* the tables a database holds when the program starts
Tables ==
    {t \in [rows : [Ids -> {ZeroT.val, Absent}], nextId : 1..(MaxId + 1)] :
        \A i \in Ids : i >= t.nextId => t.rows[i] = Absent}

NoResponse ==
    [op |-> "none", http |-> Panic, auth |-> "none", hook |-> NotCalled, changed |-> FALSE,
     badid |-> FALSE, bind |-> "none"]

NoOut == [fn |-> "none", code |-> 0, model |-> NilData, message |-> Nil, http |-> Panic]

\* no Server was made: the resource is registered on an Echo instance directly
NoServer ==
    [pc |-> "none", dsn |-> "", providers |-> <<>>, models |-> <<>>, i |-> 0,
     use |-> <<>>, log |-> <<>>, last |-> "none"]

Init ==
    /\ srv = NoServer
    /\ revision \in Revisions
    /\ Db = Nil
    /\ table \in Tables
    /\ r = ResourceZero
    /\ routes = {}
    /\ reg = [outcome |-> "none", migrate |-> "none", mws |-> <<>>]
    /\ resp = NoResponse
    /\ out = NoOut

(***************************************************************************)
(* package database                                                        *)
(***************************************************************************)
\* gorm.Open gives a handle whether or not the connection succeeded, and
\* Db = db keeps it; a database that cannot be reached shows as the faults
\* of the requests.  IsInitialized is written here and read nowhere.
\* The database is set up before routes are registered, as Server.Init does.
InitDatabase ==
    /\ reg.outcome = "none"
    /\ Db' = "handle"
    /\ UNCHANGED <<revision, table, r, routes, reg, resp, out>>

(***************************************************************************)
(* The consumer's calls on the resource.                                   *)
(***************************************************************************)
Set(f, v) ==
    /\ MaySet(f)
    /\ r' = [r EXCEPT ![f] = v]
    /\ UNCHANGED <<revision, Db, table, routes, reg, resp, out, srv>>

Middlewares(m) == Set("middlewares", m)

CanListAll == Set("canListAll", "pred")

CanListById == Set("canListById", "pred")

CanWriteById == Set("canWriteById", "pred")

CanDeleteById == Set("canDeleteById", "pred")

OverrideListAllQuery == Set("listAllQuery", "f")

OverrideListByIdQuery == Set("listByIdQuery", "f")

OverrideDeleteByIdQuery == revision = P1 /\ Set("deleteByIdQuery", "f")

SetWriteBindType == Set("writeBindType", "dto")

SetCreateBindType == Set("createBindType", "dto")

SetCreateTransformer == revision = P1 /\ Set("createTransformer", "tf")

Register ==
    LET res == IF revision = Root THEN installHooks_root(r) ELSE installHooks_p1(r)
        m == IF revision = Root THEN migrate_root(Db) ELSE migrate_p1(Db)
    IN  /\ r' = res
        /\ IF m = "nilderef"
           THEN /\ reg' = [outcome |-> "panic", migrate |-> m, mws |-> r.middlewares]
                /\ routes' = routes
           ELSE /\ reg' = [outcome |-> "done", migrate |-> m, mws |-> r.middlewares]
                /\ routes' = addRoutes(routes, groupRoutes(r.Name, r.middlewares))
        /\ UNCHANGED <<revision, Db, table, resp, out>>

(***************************************************************************)
(* Requests: a route of the resource is matched and its handler runs.      *)
(***************************************************************************)
Routed(method, path, handler) ==
    \E rt \in routes : rt.method = method /\ rt.path = path /\ rt.handler = handler

Rets(p) == IF p = Nil THEN {TRUE} ELSE BOOLEAN
HookErrs == {Nil, ErrUser, ErrorNoResourceFound, ErrorNoResourceAccess}
Hooks(q) == IF q = "f" THEN HookErrs ELSE {Nil}
ReadFaults(q) == IF q = "f" THEN {"none"} ELSE {"none", "read"}

\* A request is told apart only as far as its handler reads it; a database
\* fault is tried with one id, since no handler reads the id after a fault.
OneId == {<<"1">>}

GetAllContexts ==
    Context(OneId, Rets(r.canListAll), Vals, ReadFaults(r.listAllQuery),
            Hooks(r.listAllQuery), {"model"})

GetByIdContexts ==
    Context(IdParams, Rets(r.canListById), Vals, {"none"}, Hooks(r.listByIdQuery), {"model"})
        \cup Context(OneId, Rets(r.canListById), Vals,
                     ReadFaults(r.listByIdQuery) \ {"none"}, {Nil}, {"model"})

WriteByIdContexts ==
    IF r.writeBindType = Nil
    THEN Context(OneId \cup {<<"x">>}, {TRUE}, Vals, {"none"}, {Nil}, {"model"})
    ELSE Context(OneId \cup {<<"x">>}, {TRUE}, {"bindfail"}, {"none"}, {Nil}, {"model"})
         \cup Context({<<"x">>}, {TRUE}, Vals, {"none"}, {Nil}, {"model"})
         \cup Context(IdNumbers, Rets(r.canWriteById), {"patchfail"} \cup Vals, {"none"},
                      {Nil}, {"model"})
         \cup Context(OneId, Rets(r.canWriteById), Vals, Faults \ {"none"}, {Nil}, {"model"})

CreateContexts ==
    IF r.createTransformer # Nil
    THEN Context(OneId, Rets(r.canCreate), Vals, {"none", "write"}, {Nil},
                 {"model", "nilmodel", "err"})
    ELSE Context(OneId, Rets(r.canCreate), Bodies, {"none"}, {Nil}, {"model"})
         \cup Context(OneId, Rets(r.canCreate), Vals, {"write"}, {Nil}, {"model"})

DeleteByIdContexts ==
    Context(IdParams, Rets(r.canDeleteById), Vals, {"none"}, Hooks(r.deleteByIdQuery),
            {"model"})
        \cup Context(OneId, Rets(r.canDeleteById), Vals,
                     IF r.deleteByIdQuery = "f" THEN {"read"} ELSE {"read", "write"},
                     {Nil}, {"model"})

\* the handlers that read c.Param("id")
ByIdNames == {"getById", "writeById", "deleteById"}

\* what an update was given to bind: no bind type, a body that does not
\* bind, or a body that binds
Binding(op, c) ==
    IF op # "writeById" THEN "none"
    ELSE IF r.writeBindType = Nil THEN "notype"
    ELSE IF ~BindOk(c) THEN "bindfail"
    ELSE "bound"

\* the request as far as the properties ask about it
Asked(op, c) == [badid |-> op \in ByIdNames /\ Atoi(c.id).err, bind |-> Binding(op, c)]

\* the response, and what the request was and did, are kept for the properties
Serve(op, h, c) ==
    /\ h.db.nextId <= MaxId + 1
    /\ resp' = [op |-> op, http |-> h.http, auth |-> h.auth, hook |-> h.hook,
                changed |-> h.db # table,
                badid |-> Asked(op, c).badid, bind |-> Asked(op, c).bind]
    /\ table' = h.db
    /\ UNCHANGED <<revision, Db, r, routes, reg, out, srv>>

GetAll(c) ==
    /\ Routed("GET", "", "getAll")
    /\ Serve("getAll", getAll(r, revision, Db, table, c), c)

GetById(c) ==
    /\ Routed("GET", "/:id", "getById")
    /\ Serve("getById", getById(r, revision, Db, table, c), c)

WriteById(c) ==
    /\ Routed("PUT", "/:id", "writeById")
    /\ Serve("writeById", writeById(r, revision, Db, table, c), c)

CreateReq(c) ==
    /\ Routed("POST", "", "create")
    /\ Serve("create", create(r, revision, Db, table, c), c)

DeleteById(c) ==
    /\ Routed("DELETE", "/:id", "deleteById")
    /\ Serve("deleteById", deleteById(r, revision, Db, table, c), c)

MiddlewareLists == {<<"mw">>}

Next ==
    \/ InitDatabase /\ UNCHANGED srv
    \/ \E m \in MiddlewareLists : Middlewares(m)
    \/ CanListAll
    \/ CanListById
    \/ CanWriteById
    \/ CanDeleteById
    \/ OverrideListAllQuery
    \/ OverrideListByIdQuery
    \/ OverrideDeleteByIdQuery
    \/ SetWriteBindType
    \/ SetCreateBindType
    \/ SetCreateTransformer
    \/ Register /\ UNCHANGED srv
    \/ \E c \in GetAllContexts : GetAll(c)
    \/ \E c \in GetByIdContexts : GetById(c)
    \/ \E c \in WriteByIdContexts : WriteById(c)
    \/ \E c \in CreateContexts : CreateReq(c)
    \/ \E c \in DeleteByIdContexts : DeleteById(c)

Spec == Init /\ [][Next]_vars

(***************************************************************************)
(* Package res on its own: each function is called with a status, a model  *)
(* and an error drawn from the sets below.                                 *)
(***************************************************************************)
Codes == {StatusOK, 201, 204, StatusBadRequest, StatusForbidden, StatusNotFound,
          StatusInternalServerError}
Models == {NilData, [kind |-> "entity", id |-> 1], [kind |-> "list", ids |-> {}],
           [kind |-> "user"]}
Messages == {Nil, ErrorNoResourceAccess, ErrorNoResourceFound, ErrorDatabase,
             ErrorNoBindType, ErrorInvalidData, ErrorInvalidID, ErrRecordNotFound,
             ErrUser}

Built(fn, code, model, message, http) ==
    /\ out' = [fn |-> fn, code |-> code, model |-> model, message |-> message, http |-> http]
    /\ UNCHANGED <<revision, Db, table, r, routes, reg, resp, srv>>

ResOk(model) == Built("Ok", StatusOK, model, Nil, Ok(model))

ResOkCode(code, model) == Built("OkCode", code, model, Nil, OkCode(code, model))

ResFailCode(code, message) == Built("FailCode", code, NilData, message, FailCode(code, message))

ResFail(message) ==
    Built("Fail", StatusInternalServerError, NilData, message, Fail(message))

NextRes ==
    \/ \E model \in Models : ResOk(model)
    \/ \E code \in Codes, model \in Models : ResOkCode(code, model)
    \/ \E code \in Codes, message \in Messages : ResFailCode(code, message)
    \/ \E message \in Messages : ResFail(message)

SpecRes == Init /\ [][NextRes]_vars

(***************************************************************************)
(* Server: New, then Init step by step, then requests while it listens.    *)
(* srv.log lists what Init has done, in order; srv.use is what e.Use has   *)
(* been given, in order; srv.last tells how the last request ended.        *)
(* log.Fatal of gommon/log writes the line and calls os.Exit(1).           *)
(* A panic in a handler is caught by middleware.Recover when it is in use  *)
(* (Echo then answers with its default 500); without it net/http drops the *)
(* connection and nothing is written.  A panic in Init ends the process.   *)
(***************************************************************************)
\* a provider is the resource, or a consumer's own routes (BaseRoutes)
ProviderKinds == {"resource", "routes"}
ModelNames == {"A", "B"}

SeqsUpTo(S, n) == UNION {[1..k -> S] : k \in 0..n}

\* New(config, routes, models)
New(dsn, providers, models) ==
    [pc |-> "logging", dsn |-> dsn, providers |-> providers, models |-> models, i |-> 0,
     use |-> <<>>, log |-> <<>>, last |-> "none"]

Event(name, k) == <<name, k>>

Events(name) == {k \in 1..Len(srv.log) : srv.log[k][1] = name}

\* Logging(e, friendly): either branch gives e.Use one request logger
Logging(use) == Append(use, "Logger")

\* AddMiddlewares with the Recover middleware left out
AddMiddlewares_noRecover(use) == use \o <<"Secure">>

\* AddMiddlewares(e): e.Use(middleware.Recover()), e.Use(middleware.Secure())
AddMiddlewares(use) == use \o <<"Recover", "Secure">>

\* Init goes on to the middlewares right after a connection
AfterConnect_noMigrate(models) == "middlewares"

\* where Init goes after a connection: the loop over s.models
AfterConnect(models) == IF Len(models) > 0 THEN "migrate" ELSE "middlewares"

\* where Init goes after AddMiddlewares: the loop of registerRoutes
AfterMiddlewares(providers) == IF Len(providers) > 0 THEN "register" ELSE "start"

\* BaseRoutes.Register: e.GET("/", ...)
BaseRoutes == {Route("", "GET", "/", "index", <<>>)}

InitServer ==
    /\ revision \in Revisions
    /\ Db = Nil
    /\ table \in Tables
    /\ r = ResourceZero
    /\ routes = {}
    /\ reg = [outcome |-> "none", migrate |-> "none", mws |-> <<>>]
    /\ resp = NoResponse
    /\ out = NoOut
    /\ \E dsn \in {"", "dsn"}, providers \in SeqsUpTo(ProviderKinds, MaxProviders),
          models \in SeqsUpTo(ModelNames, MaxModels) :
            srv = New(dsn, providers, models)

\* Init: Logging(s.e, s.config.FriendlyLogging)
ServerLogging ==
    /\ srv.pc = "logging"
    /\ srv' = [srv EXCEPT !.pc = "database", !.use = Logging(@)]
    /\ UNCHANGED <<revision, Db, table, r, routes, reg, resp, out>>

\* Init: no DSN, the database is skipped
ServerSkipDatabase ==
    /\ srv.pc = "database"
    /\ srv.dsn = ""
    /\ srv' = [srv EXCEPT !.pc = "middlewares"]
    /\ UNCHANGED <<revision, Db, table, r, routes, reg, resp, out>>

\* Init: database.InitDatabase(dsn); on an error log.Fatal ends the process
ServerInitDatabase(connected) ==
    /\ srv.pc = "database"
    /\ srv.dsn # ""
    /\ InitDatabase
    /\ srv' = [srv EXCEPT !.pc = IF connected THEN AfterConnect(srv.models) ELSE "exited",
                          !.i = 1,
                          !.log = Append(@, Event(IF connected THEN "connected" ELSE "fatal", 0))]

\* Init: one turn of the loop over s.models
ServerMigrate ==
    /\ srv.pc = "migrate"
    /\ srv' = [srv EXCEPT !.pc = IF AutoMigrate(Db) = "nilderef" THEN "panicked"
                                 ELSE IF srv.i < Len(srv.models) THEN "migrate"
                                 ELSE "middlewares",
                          !.i = @ + 1,
                          !.log = Append(@, Event("migrate", srv.i))]
    /\ UNCHANGED <<revision, Db, table, r, routes, reg, resp, out>>

\* Init: AddMiddlewares(s.e)
ServerAddMiddlewares ==
    /\ srv.pc = "middlewares"
    /\ srv' = [srv EXCEPT !.pc = AfterMiddlewares(srv.providers), !.i = 1,
                          !.use = AddMiddlewares(@)]
    /\ UNCHANGED <<revision, Db, table, r, routes, reg, resp, out>>

\* the position after provider srv.i registered
AfterRegister == IF srv.i < Len(srv.providers) THEN "register" ELSE "start"

\* registerRoutes: one turn of the loop, the provider is the resource
ServerRegisterResource ==
    /\ srv.pc = "register"
    /\ srv.providers[srv.i] = "resource"
    /\ Register
    /\ srv' = [srv EXCEPT !.pc = IF reg'.outcome = "panic" THEN "panicked" ELSE AfterRegister,
                          !.i = @ + 1,
                          !.log = Append(@, Event(IF reg'.outcome = "panic" THEN "panic"
                                                  ELSE "register", srv.i))]

\* registerRoutes: one turn of the loop, the provider is the consumer's own
ServerRegisterRoutes ==
    /\ srv.pc = "register"
    /\ srv.providers[srv.i] = "routes"
    /\ routes' = addRoutes(routes, BaseRoutes)
    /\ srv' = [srv EXCEPT !.pc = AfterRegister, !.i = @ + 1,
                          !.log = Append(@, Event("register", srv.i))]
    /\ UNCHANGED <<revision, Db, table, r, reg, resp, out>>

\* Init: the renderer is set and Start is called; e.Start listens, or
\* returns an error that is logged
ServerStart(listens) ==
    /\ srv.pc = "start"
    /\ srv' = [srv EXCEPT !.pc = IF listens THEN "listening" ELSE "returned",
                          !.log = Append(@, Event("start", 0))]
    /\ UNCHANGED <<revision, Db, table, r, routes, reg, resp, out>>

\* the handler a route names
Handler(name, c) ==
    CASE name = "getAll" -> getAll(r, revision, Db, table, c)
      [] name = "getById" -> getById(r, revision, Db, table, c)
      [] name = "writeById" -> writeById(r, revision, Db, table, c)
      [] name = "create" -> create(r, revision, Db, table, c)
      [] name = "deleteById" -> deleteById(r, revision, Db, table, c)

RequestContexts(name) ==
    CASE name = "getAll" -> GetAllContexts
      [] name = "getById" -> GetByIdContexts
      [] name = "writeById" -> WriteByIdContexts
      [] name = "create" -> CreateContexts
      [] name = "deleteById" -> DeleteByIdContexts

\* what the chain of e.Use makes of a handler's panic
Recovered(use) ==
    IF \E k \in 1..Len(use) : use[k] = "Recover"
    THEN [http |-> EchoError(Nil), last |-> "recovered"]
    ELSE [http |-> Panic, last |-> "aborted"]

\* a request to a route of the resource while the server listens
ServerRequest(name, c) ==
    LET h == Handler(name, c)
        rec == Recovered(srv.use)
    IN  /\ srv.pc = "listening"
        /\ \E rt \in routes : rt.handler = name
        /\ h.db.nextId <= MaxId + 1
        /\ resp' = [op |-> name, http |-> IF h.http = Panic THEN rec.http ELSE h.http,
                    auth |-> h.auth, hook |-> h.hook, changed |-> h.db # table,
                    badid |-> Asked(name, c).badid, bind |-> Asked(name, c).bind]
        /\ table' = h.db
        /\ srv' = [srv EXCEPT !.last = IF h.http = Panic THEN rec.last ELSE "answered"]
        /\ UNCHANGED <<revision, Db, r, routes, reg, out>>

HandlerNames == {"getAll", "getById", "writeById", "create", "deleteById"}

NextServer ==
    \/ ServerLogging
    \/ ServerSkipDatabase
    \/ \E connected \in BOOLEAN : ServerInitDatabase(connected)
    \/ ServerMigrate
    \/ ServerAddMiddlewares
    \/ ServerRegisterResource
    \/ ServerRegisterRoutes
    \/ \E listens \in BOOLEAN : ServerStart(listens)
    \/ \E name \in HandlerNames : \E c \in RequestContexts(name) : ServerRequest(name, c)

SpecServer == InitServer /\ [][NextServer]_vars

(***************************************************************************)
(* Properties.                                                             *)
(***************************************************************************)
Forbidden == FailCode(StatusForbidden, ErrorNoResourceAccess)
NotFound == FailCode(StatusNotFound, ErrorNoResourceFound)
DatabaseProblem == FailCode(StatusInternalServerError, ErrorDatabase)
NoBindType == FailCode(StatusInternalServerError, ErrorNoBindType)

\* C1: a list-all query installed with OverrideListAllQuery stays the query
\* in use: no step, Register included, replaces it.
C1_OverrideSurvivesRegister ==
    [][r.listAllQuery = "f" => r'.listAllQuery = "f"]_vars

\* C2: a Register that ran while database.Db was nil completed with its
\* routes registered, skipped the migration and dereferenced nothing.
C2_RegisterWithoutDatabase ==
    (reg.outcome # "none" /\ Db = Nil)
        => /\ reg.outcome = "done"
           /\ reg.migrate = "skipped"
           /\ Cardinality(routes) = 5

\* C3: after a Register that completed, exactly the five routes of the
\* group exist, each bound to its handler and carrying the middlewares the
\* resource held when Register ran.
C3_FiveRoutes ==
    reg.outcome = "done"
        => routes = {[group |-> r.Name, method |-> "GET", path |-> "",
                      handler |-> "getAll", mws |-> reg.mws],
                     [group |-> r.Name, method |-> "GET", path |-> "/:id",
                      handler |-> "getById", mws |-> reg.mws],
                     [group |-> r.Name, method |-> "PUT", path |-> "/:id",
                      handler |-> "writeById", mws |-> reg.mws],
                     [group |-> r.Name, method |-> "POST", path |-> "",
                      handler |-> "create", mws |-> reg.mws],
                     [group |-> r.Name, method |-> "DELETE", path |-> "/:id",
                      handler |-> "deleteById", mws |-> reg.mws]}

\* Register completed on a resource that had been given middlewares
C3_Witness ==
    /\ reg.outcome = "done"
    /\ reg.mws # <<>>
    /\ Cardinality(routes) = 5

\* C4: a request whose authorization predicate was asked and answered false
\* is answered 403 with the failure envelope "no resource access".
C4_DeniedIs403 == resp.auth = "deny" => resp.http = Forbidden

\* C5: an update, create or delete whose authorization predicate answered
\* false changed nothing in the table.
C5_DeniedChangesNothing ==
    (resp.op \in {"writeById", "create", "deleteById"} /\ resp.auth = "deny")
        => ~resp.changed

\* a delete of a stored row was denied
C5_Witness ==
    /\ resp.op = "deleteById"
    /\ resp.auth = "deny"
    /\ \E i \in Ids : Has(table.rows, i)

\* C6: in getById, writeById and deleteById the error the query hook
\* returned decides the response: ErrorNoResourceFound 404, ErrorNoResourceAccess
\* 403, another error 500 "database problem", no error 200.
C6_HookErrorToStatus ==
    (resp.op \in {"getById", "writeById", "deleteById"} /\ resp.hook # NotCalled)
        => /\ resp.hook = ErrorNoResourceFound => resp.http = NotFound
           /\ resp.hook = ErrorNoResourceAccess => resp.http = Forbidden
           /\ resp.hook \notin {Nil, ErrorNoResourceFound, ErrorNoResourceAccess}
                  => resp.http = DatabaseProblem
           /\ resp.hook = Nil => resp.http.code = StatusOK

\* a delete whose hook returned ErrorNoResourceFound was answered
C6_Witness ==
    /\ resp.op = "deleteById"
    /\ resp.hook = ErrorNoResourceFound

\* an update that reaches the lookup of a row the table does not hold: the
\* bind type is set, the body binds and patches, the id is a number, the
\* predicate (if any) allows and the database does not fail
UpdateOfMissing(c) ==
    /\ Db # Nil
    /\ r.writeBindType # Nil
    /\ BindOk(c) /\ PatchOk(c)
    /\ c.fault = "none" /\ c.ret
    /\ ~Atoi(c.id).err
    /\ ~Has(table.rows, Atoi(c.id).n)

\* C7: an update for an id with no stored row is answered 404 "no resource
\* found" and leaves the table as it was.
C7_UpdateOfMissingIs404 ==
    [][\A c \in WriteByIdContexts :
            (UpdateOfMissing(c) /\ WriteById(c)) => (resp'.http = NotFound /\ table' = table)]_vars

\* a delete, by the default hook, of a row the table does not hold
DeleteOfMissing(c) ==
    /\ Db # Nil
    /\ r.deleteByIdQuery = "default"
    /\ c.fault = "none" /\ c.ret
    /\ ~Atoi(c.id).err
    /\ ~Has(table.rows, Atoi(c.id).n)

\* C8: a delete for an id with no stored row is answered 404 "no resource
\* found" and deletes nothing.
C8_DeleteOfMissingIs404 ==
    [][\A c \in DeleteByIdContexts :
            (DeleteOfMissing(c) /\ DeleteById(c)) => (resp'.http = NotFound /\ table' = table)]_vars

\* C9: an update while no write bind type is set, and a create while
\* neither a create bind type nor a transformer is set, is answered 500
\* "unable to handle this request" and changes nothing in the table.
\* (No call of the resource clears a bind type or a transformer, so one that
\* is unset now was unset when the request was served.)
C9_NoBindTypeIs500 ==
    (\/ resp.op = "writeById" /\ r.writeBindType = Nil
     \/ resp.op = "create" /\ r.createBindType = Nil /\ r.createTransformer = Nil)
        => (resp.http = NoBindType /\ ~resp.changed)

\* a create was served by a resource with no bind type and no transformer
C9_Witness ==
    /\ resp.op = "create"
    /\ r.createBindType = Nil
    /\ r.createTransformer = Nil
    /\ Db # Nil

\* C10: Ok and OkCode give Success, an empty message and the model as Data,
\* with status 200 or the code given; FailCode and Fail give no success, nil
\* Data and the error's text (empty for a nil error), with the code given or
\* status 500.
C10_Envelope ==
    /\ out.fn \in {"Ok", "OkCode"}
          => /\ out.http.body = [Success |-> TRUE, Message |-> "", Data |-> out.model]
             /\ out.http.code = (IF out.fn = "Ok" THEN StatusOK ELSE out.code)
    /\ out.fn \in {"FailCode", "Fail"}
          => /\ out.http.body =
                    [Success |-> FALSE,
                     Message |-> IF out.message = Nil THEN "" ELSE ErrorText(out.message),
                     Data |-> NilData]
             /\ out.http.code =
                    (IF out.fn = "Fail" THEN StatusInternalServerError ELSE out.code)

\* FailCode was called with an error and a status that is not 500
C10_Witness ==
    /\ out.fn = "FailCode"
    /\ out.message = ErrorNoResourceAccess
    /\ out.code = StatusForbidden

\* Init has come to its end: the server listens, Start returned, the process
\* exited in log.Fatal or died of a panic
Finished == srv.pc \in {"listening", "returned", "exited", "panicked"}

\* the turns of registerRoutes that called a provider's Register
RegisterCalls == Events("register") \cup Events("panic")

\* the providers whose Register returned
Registered == {srv.log[k][2] : k \in Events("register")}

\* C11: when the connection failed, Init migrated no model, called no
\* provider's Register and did not start the server; with an empty DSN, Init
\* skipped the connection and the migrations, and registered every provider
\* and started the server.
C11_InitWithoutDatabase ==
    /\ Events("fatal") # {}
          => /\ Events("migrate") = {}
             /\ RegisterCalls = {}
             /\ Events("start") = {}
    /\ (srv.dsn = "" /\ Finished)
          => /\ Events("connected") \cup Events("fatal") = {}
             /\ Events("migrate") = {}
             /\ Registered = 1..Len(srv.providers)
             /\ Events("start") # {}

\* C12: Recover is in use on the Echo instance before any provider's
\* Register is called, and a panic in a handler of a registered route is
\* caught: the request is answered with Echo's 500 and the server goes on
\* listening.
C12_RecoverBeforeRegister ==
    /\ RegisterCalls # {} => \E k \in 1..Len(srv.use) : srv.use[k] = "Recover"
    /\ srv.last # "aborted"
    /\ srv.last = "recovered" => (resp.http = EchoError(Nil) /\ srv.pc = "listening")

\* a handler of the resource panicked on the nil database handle while the
\* server listened, and the panic was caught
C12_Witness ==
    /\ srv.last = "recovered"
    /\ resp.op = "getAll"
    /\ Db = Nil
    /\ srv.pc = "listening"

BadId == FailCode(StatusBadRequest, ErrorInvalidID)

\* C13: in getById, writeById and deleteById an id that Atoi does not parse
\* is answered 400 "bad id", the query hook is not called and the table is
\* unchanged.
C13_BadIdIs400 ==
    resp.badid => (resp.http = BadId /\ resp.hook = NotCalled /\ ~resp.changed)

\* C13 as amended: getById and deleteById answer an id that Atoi does not
\* parse with 400 "bad id"; writeById does so when a write bind type is set
\* and the body binds, answers 500 "unable to handle this request" when no
\* bind type is set and 400 "bad data" when the body does not bind; in each
\* of these cases the query hook is not called and the table is unchanged.
C13_BadIdIs400_Amended ==
    resp.badid
        => /\ resp.hook = NotCalled
           /\ ~resp.changed
           /\ resp.http = (IF resp.bind = "notype" THEN NoBindType
                           ELSE IF resp.bind = "bindfail"
                           THEN FailCode(StatusBadRequest, ErrorInvalidData)
                           ELSE BadId)

\* an update was refused for its id
C13_Witness ==
    /\ resp.op = "writeById"
    /\ resp.badid
    /\ resp.bind = "bound"

\* the models the loop of Init has migrated
Migrated == {srv.log[k][2] : k \in Events("migrate")}

\* the events named happen in the order of their list, each once at most
InListOrder(name) ==
    \A a, b \in Events(name) : a < b => srv.log[a][2] < srv.log[b][2]

\* C14: after a successful connection, every model given to New is migrated
\* before any provider's Register is called, and by the time Start is called
\* every provider's Register has been called once, in the order of the list.
C14_MigrateThenRegisterInOrder ==
    Events("connected") # {}
        => /\ RegisterCalls # {} => Migrated = 1..Len(srv.models)
           /\ \A a \in Events("migrate"), b \in RegisterCalls : a < b
           /\ InListOrder("migrate")
           /\ InListOrder("register")
           /\ Events("panic") = {}
           /\ Events("start") # {}
                 => /\ Migrated = 1..Len(srv.models)
                    /\ Registered = 1..Len(srv.providers)
                    /\ \A a \in RegisterCalls, b \in Events("start") : a < b
           /\ srv.pc = "listening" => Events("start") # {}

\* the server listens after a connection, a migration and the Register of
\* two providers
C14_Witness ==
    /\ srv.pc = "listening"
    /\ Events("connected") # {}
    /\ Len(srv.models) >= 1
    /\ Len(srv.providers) >= 2
    /\ Registered = 1..Len(srv.providers)

====
